---- MODULE Spec2Model ----
(***************************************************************************)
(* Precipitation-frequency pipeline of the ICOADS notebooks:               *)
(*   tabulate grids          ship reports -> monthly (year, month, lat,     *)
(*                           lon) count grids                               *)
(*   004-convolve_grids      monthly count grids -> (window, year, season, *)
(*                           lat, lon) int32 tensors                        *)
(*   compute fractions       int32 tensors -> fraction/sigma tensors        *)
(*   006-composite_fractions fraction/sigma tensors -> composite grids      *)
(* Each stage is a state machine of its own (SpecBin, SpecConv, SpecFrac,   *)
(* SpecComp); SpecSession is the convolution notebook with its loop cell    *)
(* run again, SpecGrids is a session of the binning or of the convolution   *)
(* and SpecStages a session of the convolution or of the composite          *)
(* selection.                                                               *)
(***************************************************************************)
EXTENDS Integers, Sequences, FiniteSets, TLC

VARIABLES
    f, s,                  \* 006: fractions[k]['f'], fractions[k]['s'] at one cell, per window
    fcomp, scomp, rcomp,   \* 006: the composite grids at that cell
    pass,                  \* 006: number of the current execution of the inner loop body
    nr, n50,               \* 004: monthly count grids (year, month, lat, lon), float64
    ls_mask,               \* 004: land/sea mask (lat, lon), True where there is land
    nreports, nprecip,     \* 004: output tensors (window, year, season, lat, lon), int32
    slice,                 \* 004: number of the current (input, window, year, season) iteration
    castMode,              \* 004: what astype('int32') gives for a value outside int32
    error,                 \* 004: the exception that ended the loop cell, "none" if none
    runs,                  \* 004: how many times the loop cell was started in the session
    grids_pkl,             \* 004: the content of the exported file grids.pkl, <<>> if none
    df,                    \* binning: the table of ship reports, one record per row
    df_reports, df_precip, \* binning: group sizes by (YR, MO, LAT_BIN, LON_BIN)
    ds_reports, ds_precip, \* binning: the count grids (year, month, lat, lon)
    lastCell,              \* binning: the last cell of the notebook that was run
    grids,                 \* fractions: the loaded content of grids.pkl
    fprecip, sprecip,      \* fractions: output tensors (window, year, season, lat, lon), float32
    cellsDone              \* fractions: number of executions of the innermost loop body so far

compVars == <<f, s, fcomp, scomp, rcomp, pass>>
convVars == <<nr, n50, ls_mask, nreports, nprecip, slice, castMode, error, runs, grids_pkl>>
binVars == <<df, df_reports, df_precip, ds_reports, ds_precip, lastCell>>
fracVars == <<grids, fprecip, sprecip, cellsDone>>
vars == <<f, s, fcomp, scomp, rcomp, pass, nr, n50, ls_mask, nreports, nprecip, slice, castMode,
          error, runs, grids_pkl, df, df_reports, df_precip, ds_reports, ds_precip, lastCell,
          grids, fprecip, sprecip, cellsDone>>

(***************************************************************************)
(* Each notebook runs in a session of its own: while one runs, the state   *)
(* of the other is not loaded.                                             *)
(***************************************************************************)

\* float32 NaN, and a finite float32 value n/10000.
NaN == [nan |-> TRUE]
Num(n) == [v |-> n]

\* The composite notebook is not run during the convolution.
CompIdle ==
    /\ f = <<>> /\ s = <<>>
    /\ fcomp = NaN /\ scomp = NaN /\ rcomp = 0 - 1
    /\ pass = 0

\* The convolution notebook is not run during the composite selection.
ConvIdle ==
    /\ nr = <<>> /\ n50 = <<>> /\ ls_mask = <<>>
    /\ nreports = <<>> /\ nprecip = <<>>
    /\ slice = 0
    /\ castMode = "indefinite"
    /\ error = "none"
    /\ runs = 0
    /\ grids_pkl = <<>>

\* The binning notebook is not run during the later stages.
BinIdle ==
    /\ df = <<>>
    /\ df_reports = <<>> /\ df_precip = <<>>
    /\ ds_reports = <<>> /\ ds_precip = <<>>
    /\ lastCell = "idle"

\* The fractions notebook is not run during the other stages.
FracIdle ==
    /\ grids = <<>>
    /\ fprecip = <<>> /\ sprecip = <<>>
    /\ cellsDone = 0

(***************************************************************************)
(* Tabulate grids (src/unnamed/part_000).  The 180 x 360 grid of one-degree *)
(* cells is scaled down; coordinates are fixed-point numbers in units of   *)
(* 1/PerDegree degree.                                                     *)
(***************************************************************************)

\* The latitude of the pole and the longitude of the full circle, in degrees
\* (90 and 360 in the notebook).
LatMax == 2
LonMax == 3

\* The number of rows of the table.
MaxRecords == 2

\* LAT and LON are held in halves of a degree.
PerDegree == 2

\* np.arange(a, b, 1) as a sequence
Arange(a, b) == [k \in 1 .. (b - a) |-> a + k - 1]

\* lats, lons: the bottom and the left edges of the grid cells, in degrees.
lats == Arange(-LatMax, LatMax)
lons == Arange(0, LonMax)

\* months = np.arange(1, 13) of the binning notebook
binMonths == Arange(1, 13)

\* start_yr = df.YR.min(), end_yr = df.YR.max(), years = np.arange(start_yr, end_yr + 1)
start_yr == CHOOSE y \in {df[n].YR : n \in DOMAIN df} : \A n \in DOMAIN df : y <= df[n].YR
end_yr == CHOOSE y \in {df[n].YR : n \in DOMAIN df} : \A n \in DOMAIN df : y >= df[n].YR
years == Arange(start_yr, end_yr + 1)

\* The elements of a sequence.
Range(q) == {q[k] : k \in DOMAIN q}

\* np.digitize with right=True: bins[i-1] < x <= bins[i].
DigitizeRight(x, bins) == Cardinality({k \in DOMAIN bins : bins[k] * PerDegree < x})

\* np.digitize(x, bins), bins increasing: the i with bins[i-1] <= x < bins[i], 0
\* below the first edge and len(bins) from the last edge on.
Digitize(x, bins) == Cardinality({k \in DOMAIN bins : bins[k] * PerDegree <= x})

\* bins[np.digitize(x, bins) - 1]: numpy counts the index -1 from the end.
BinLabel(x, bins) ==
    LET idx == Digitize(x, bins) - 1
    IN  bins[(IF idx < 0 THEN idx + Len(bins) ELSE idx) + 1]

\* The test with the threshold itself left out.
AtLeastDrizzleStrict(rec) == rec.WW > 50

\* df.WW >= 50
AtLeastDrizzle(rec) == rec.WW >= 50

\* colgroups = ['YR', 'MO', 'LAT_BIN', 'LON_BIN']
colgroups(rec) == <<rec.YR, rec.MO, rec.LAT_BIN, rec.LON_BIN>>

\* The number of different rows of every group (equal rows counted once).
GroupSizeDistinct(rows) ==
    [k \in {colgroups(rows[n]) : n \in DOMAIN rows} |->
        Cardinality({rows[n] : n \in {x \in DOMAIN rows : colgroups(rows[x]) = k}})]

\* rows.groupby(colgroups).size(): the number of rows of every group that has
\* rows.
GroupSize(rows) ==
    [k \in {colgroups(rows[n]) : n \in DOMAIN rows} |->
        Cardinality({n \in DOMAIN rows : colgroups(rows[n]) = k})]

\* sizes.to_frame().to_xarray().fillna(0).reindex(reindexer, fill_value=0): the
\* dense grid over years x months x lats x lons, 0 where there is no group.
ToGrid(sizes) ==
    [y \in Range(years) |-> [m \in Range(binMonths) |->
        [la \in Range(lats) |-> [lo \in Range(lons) |->
            IF <<y, m, la, lo>> \in DOMAIN sizes THEN sizes[<<y, m, la, lo>>] ELSE 0]]]]

\* The (LAT, LON) of the reports that are tried: below the first latitude edge,
\* on the first edges, half a degree south of the equator, on the last latitude
\* edge and inside the last longitude cell, on the pole, on the full circle,
\* west of the first longitude edge.
Positions ==
    { <<-LatMax * PerDegree - 1, 0>>,
      <<-LatMax * PerDegree, 0>>,
      <<-1, 1>>,
      <<(LatMax - 1) * PerDegree, LonMax * PerDegree - 1>>,
      <<LatMax * PerDegree, 1>>,
      <<0, LonMax * PerDegree>>,
      <<0, -1>> }

\* The (YR, MO) and the WW (present weather, -1 if missing) that are tried.
Dates == {<<1950, 1>>, <<1950, 12>>, <<1951, 1>>}
Weather == {-1, 49, 50}

\* The reports that are tried: a report of drizzle of January 1950 at every
\* position, and a report of every date and weather half a degree south of the
\* equator.
Reports ==
    {[YR |-> 1950, MO |-> 1, LAT |-> p[1], LON |-> p[2], WW |-> 50] : p \in Positions}
    \cup {[YR |-> d[1], MO |-> d[2], LAT |-> -1, LON |-> 1, WW |-> w] :
               d \in Dates, w \in Weather}

\* The loaded table: one to MaxRecords reports.
InitBin ==
    /\ \E n \in 1 .. MaxRecords : df \in [1 .. n -> Reports]
    /\ df_reports = <<>> /\ df_precip = <<>>
    /\ ds_reports = <<>> /\ ds_precip = <<>>
    /\ lastCell = "loaded"
    /\ ConvIdle
    /\ CompIdle
    /\ FracIdle

\* The cell that adds the columns LAT_BIN and LON_BIN.
AddBinLabels ==
    /\ lastCell = "loaded"
    /\ df' = [n \in DOMAIN df |->
                [YR |-> df[n].YR, MO |-> df[n].MO, LAT |-> df[n].LAT, LON |-> df[n].LON,
                 WW |-> df[n].WW,
                 LAT_BIN |-> BinLabel(df[n].LAT, lats),
                 LON_BIN |-> BinLabel(df[n].LON, lons)]]
    /\ lastCell' = "labelled"
    /\ UNCHANGED <<df_reports, df_precip, ds_reports, ds_precip>>
    /\ UNCHANGED <<convVars, compVars, fracVars>>

\* The cell that aggregates the rows into frequency counts.
Aggregate ==
    /\ lastCell = "labelled"
    /\ df_reports' = GroupSize(df)
    /\ df_precip' = GroupSize(SelectSeq(df, AtLeastDrizzle))
    /\ lastCell' = "aggregated"
    /\ UNCHANGED <<df, ds_reports, ds_precip>>
    /\ UNCHANGED <<convVars, compVars, fracVars>>

\* The cell that converts the counts to the dense grids.
Reindex ==
    /\ lastCell = "aggregated"
    /\ ds_reports' = ToGrid(df_reports)
    /\ ds_precip' = ToGrid(df_precip)
    /\ lastCell' = "gridded"
    /\ UNCHANGED <<df, df_reports, df_precip>>
    /\ UNCHANGED <<convVars, compVars, fracVars>>

(***************************************************************************)
(* 004-convolve_grids.  sh = (7, 70, 5, 180, 360) is scaled down: the      *)
(* loops and the kernels are built from sh as in the notebook.             *)
(***************************************************************************)

\* sh[0], sh[1], sh[3], sh[4] of the convolution: windows, years, latitude and
\* longitude bins.
ConvWindows == 2
NYears == 2
NLat == 3
NLon == 7

CWindows == 0 .. (ConvWindows - 1)
Years == 0 .. (NYears - 1)
Lats == 0 .. (NLat - 1)
Lons == 0 .. (NLon - 1)
Cells == Lats \X Lons

\* The table with DJF taken as January to March.
monthsShifted ==
    << <<0, 1, 2>>, <<2, 3, 4>>, <<5, 6, 7>>, <<8, 9, 10>>,
       <<0, 1, 2, 3, 4, 5, 6, 7, 8, 9, 10, 11>> >>

\* months: the month indices of DJF, MAM, JJA, SON, Annual.
months ==
    << <<11, 0, 1>>, <<2, 3, 4>>, <<5, 6, 7>>, <<8, 9, 10>>,
       <<0, 1, 2, 3, 4, 5, 6, 7, 8, 9, 10, 11>> >>

Seasons == 0 .. (Len(months) - 1)
MonthIdx == 0 .. 11

\* The width of the output integers: dtype='int32', scaled down (the integers of
\* the model checker are 32 bits wide themselves).
IntBits == 16

Pow2(n) == 2 ^ n

\* Integer arithmetic of numpy at the width of the output: the sum wraps around.
Wrap32(x) == ((x + Pow2(IntBits - 1)) % Pow2(IntBits)) - Pow2(IntBits - 1)

\* The sum in an integer type one bit narrower than the output's.
AddNarrow(a, b) ==
    ((a + b + Pow2(IntBits - 2)) % Pow2(IntBits - 1)) - Pow2(IntBits - 2)

\* tout[...] += x: the sum of two int32 values.
Add32(a, b) == Wrap32(a + b)

\* What a build may produce for astype('int32') of a float64 outside the int32
\* range (undefined in C): the x86 "integer indefinite" value, saturation, or
\* the low 32 bits.
CastModes == {"indefinite", "saturate", "wrap"}

\* x.astype('int32') of an integer-valued float64 x.
AsInt32(x, mode) ==
    IF -Pow2(IntBits - 1) <= x /\ x < Pow2(IntBits - 1)
    THEN x
    ELSE CASE mode = "indefinite" -> -Pow2(IntBits - 1)
           [] mode = "saturate" -> (IF x < 0 THEN -Pow2(IntBits - 1) ELSE Pow2(IntBits - 1) - 1)
           [] OTHER -> Wrap32(x)

\* The kernels with their sizes in descending order of the window index.
KernelShapeShrinking(j) ==
    LET ndim == 2 * (ConvWindows - 1 - j) + 1
    IN  IF j < ConvWindows - 1 THEN <<ndim, ndim>> ELSE <<ndim, 2 * ndim + 1>>

\* The shape of the kernel a of window j: square, except the last one.
KernelShape(j) ==
    LET ndim == 2 * j + 1
    IN  IF j < ConvWindows - 1 THEN <<ndim, ndim>> ELSE <<ndim, 2 * ndim + 1>>

RECURSIVE KernelSum(_, _, _, _, _, _, _)
\* The sum of t over the kernel elements n, n+1, ... of a rows x cols kernel of
\* ones whose element (a, b) meets the cell (top - a, left - b), indices wrapped.
KernelSum(t, rows, cols, top, left, n, acc) ==
    IF n = rows * cols
    THEN acc
    ELSE KernelSum(t, rows, cols, top, left, n + 1,
                   acc + t[(top - (n \div cols)) % NLat][(left - (n % cols)) % NLon])

RECURSIVE KernelSumFill(_, _, _, _, _, _, _)
\* The same sum with the cells outside the grid read as 0.
KernelSumFill(t, rows, cols, top, left, n, acc) ==
    IF n = rows * cols
    THEN acc
    ELSE KernelSumFill(t, rows, cols, top, left, n + 1,
                       acc + (IF /\ (top - (n \div cols)) \in 0 .. (NLat - 1)
                                 /\ (left - (n % cols)) \in 0 .. (NLon - 1)
                              THEN t[top - (n \div cols)][left - (n % cols)]
                              ELSE 0))

\* The convolution with boundary='fill' (zero padding) in place of 'wrap'.
ConvolveFill(t, shape, r, c) ==
    KernelSumFill(t, shape[1], shape[2],
                  r + ((shape[1] - 1) \div 2), c + ((shape[2] - 1) \div 2), 0, 0)

\* convolve2d(t, np.ones(shape), mode='same', boundary='wrap') at cell (r, c):
\* the kernel is centred on the cell and the indices wrap around both axes.
Convolve2d(t, shape, r, c) ==
    KernelSum(t, shape[1], shape[2],
              r + ((shape[1] - 1) \div 2), c + ((shape[2] - 1) \div 2), 0, 0)

\* v * ls_mask at a cell: a bool multiplies as 0 or 1.
MulMask(v, mask) == IF mask THEN v ELSE 0

\* ls_mask.shape
MaskShape == <<Cardinality(DOMAIN ls_mask), Cardinality(DOMAIN ls_mask[0])>>

\* Whether numpy combines an array of this (lat, lon) shape with the (sh[3], sh[4])
\* grid of a slice: along each axis the lengths are equal or the array's is 1.
Broadcastable(shape) == shape[1] \in {1, NLat} /\ shape[2] \in {1, NLon}

\* The element of ls_mask that meets the cell (r, c) of the grid: an axis of
\* length 1 is repeated along the grid (broadcasting).
MaskAt(r, c) ==
    LET row == IF r \in DOMAIN ls_mask THEN ls_mask[r] ELSE ls_mask[0]
    IN  IF c \in DOMAIN row THEN row[c] ELSE row[0]

\* convolve2d(t, a, mode='same', boundary='wrap').astype('int32') * ls_mask at (r, c).
Term(t, shape, r, c) ==
    MulMask(AsInt32(Convolve2d(t, shape, r, c), castMode), MaskAt(r, c))

\* The number of (input, window, year, season) iterations of the loops.
SliceCount == 2 * ConvWindows * NYears * Len(months)

\* The k-th iteration: <<index i into tlist_in, window j, iyr, iseason>>.
SliceOf(k) ==
    LET n == k - 1
        perIn == ConvWindows * NYears * Len(months)
        perWin == NYears * Len(months)
    IN  << n \div perIn,
           (n % perIn) \div perWin,
           (n % perWin) \div Len(months),
           n % Len(months) >>

ConvDone == slice > SliceCount

\* months[iseason]
MonthsOf(iseason) == months[iseason + 1]

RECURSIVE AccumulatePrevDec(_, _, _, _, _, _, _)
\* The accumulation with December taken from the row of the year before.
AccumulatePrevDec(acc, tin, shape, iyr, ms, n, cell) ==
    IF n > Len(ms)
    THEN acc
    ELSE AccumulatePrevDec(
            Add32(acc, Term(tin[IF ms[n] = 11 /\ iyr > 0 THEN iyr - 1 ELSE iyr][ms[n]],
                            shape, cell[1], cell[2])),
            tin, shape, iyr, ms, n + 1, cell)

RECURSIVE Accumulate(_, _, _, _, _, _, _)
\* tout[j, iyr, iseason, r, c] after the months ms[n], ms[n+1], ... have been
\* added to acc, one "+=" per month.
Accumulate(acc, tin, shape, iyr, ms, n, cell) ==
    IF n > Len(ms)
    THEN acc
    ELSE Accumulate(Add32(acc, Term(tin[iyr][ms[n]], shape, cell[1], cell[2])),
                    tin, shape, iyr, ms, n + 1, cell)

\* The tensor tout after the "for imo in months[iseason]" loop of one iteration.
SliceResult(tout, tin, j, iyr, iseason) ==
    [tout EXCEPT ![j][iyr][iseason] =
        [r \in Lats |-> [c \in Lons |->
            Accumulate(tout[j][iyr][iseason][r][c], tin, KernelShape(j), iyr,
                       MonthsOf(iseason), 1, <<r, c>>)]]]

\* np.zeros(sh, dtype='int32')
ZeroTensor ==
    [j \in CWindows |-> [y \in Years |-> [se \in Seasons |->
        [r \in Lats |-> [c \in Lons |-> 0]]]]]

\* A large report count, and the grid (year, month, lat, lon) of ny years with n
\* reports at x and k reports at z.
Big == Pow2(IntBits - 2)
Deposits(ny, x, n, z, k) ==
    [y \in 0 .. (ny - 1) |-> [m \in MonthIdx |-> [r \in Lats |-> [c \in Lons |->
        (IF <<y, m, r, c>> = x THEN n ELSE 0) + (IF <<y, m, r, c>> = z THEN k ELSE 0)]]]]

\* The sets of land cells of the masks that are tried.
LandSets == {{<<0, 0>>}, Cells \ {<<0, 0>>}}

\* The report counts <<n, k>> that are tried.
Loads == {<<1, 2>>, <<Big, 2>>, <<Big, Big>>}

\* The numbers of years of the loaded grids that are tried: sh[1], one less and
\* one more.
InputYears == {NYears - 1, NYears, NYears + 1}

\* The (lat, lon) shapes of the loaded mask that are tried: (sh[3], sh[4]), a
\* single row, a single column, and one row more.
MaskShapes == {<<NLat, NLon>>, <<1, NLon>>, <<NLat, 1>>, <<NLat + 1, NLon>>}

\* The loaded grids: n reports in the cell (0, 0) of a free (year, month) and k
\* in the opposite corner of January of the first year (together they exceed the
\* integer range only when both are Big and in the same month), the
\* precipitating reports a part of them; nreports and nprecip are zero.  Files
\* whose shape is not the one of sh are tried with one content.
InitConv ==
    /\ \E ny \in InputYears, shape \in MaskShapes :
          /\ \E y \in Years, m \in MonthIdx, nk \in Loads, p \in BOOLEAN :
                /\ (ny = NYears /\ shape = <<NLat, NLon>>)
                      \/ (y = 0 /\ m = 0 /\ nk = <<1, 2>> /\ p)
                /\ nr = Deposits(ny, <<y, m, 0, 0>>, nk[1],
                                 <<0, 0, NLat - 1, NLon - 1>>, nk[2])
                /\ n50 = Deposits(ny, <<y, m, 0, 0>>, IF p THEN nk[1] ELSE 0,
                                  <<0, 0, NLat - 1, NLon - 1>>, 0)
                /\ castMode \in CastModes
                /\ (nk = <<Big, Big>> /\ y = 0 /\ m = 0) \/ castMode = "indefinite"
          /\ \E land \in LandSets :
                ls_mask = [r \in 0 .. (shape[1] - 1) |-> [c \in 0 .. (shape[2] - 1) |->
                              <<r, c>> \in land]]
    /\ nreports = ZeroTensor
    /\ nprecip = ZeroTensor
    /\ slice = 1
    /\ error = "none"
    /\ runs = 1
    /\ grids_pkl = <<>>
    /\ CompIdle
    /\ BinIdle
    /\ FracIdle

\* The input with the product by the mask made in place (t *= ls_mask): t is a
\* view of tin, so the months of the season are overwritten in the input.
InputAfterMaskedInPlace(tin, iyr, ms) ==
    [tin EXCEPT ![iyr] =
        [m \in MonthIdx |->
            IF m \in Range(ms)
            THEN [r \in Lats |-> [c \in Lons |-> MulMask(tin[iyr][m][r][c], MaskAt(r, c))]]
            ELSE tin[iyr][m]]]

\* The input array tin after the months ms of year iyr have been read:
\* t = tin[iyr, imo, :, :] is a view of tin, but convolve2d, astype and the
\* product with ls_mask return new arrays and "+=" writes to tout, so nothing
\* is written through t.
InputAfter(tin, iyr, ms) == tin

\* One (input, window, year, season) iteration: the loop over the months of the
\* season, each adding its convolved, cast and masked grid to the output slice.
\* tin[iyr, imo, :, :] raises IndexError when tin has no row iyr, and the product
\* with ls_mask (or its addition to the slice) raises ValueError when the shapes
\* cannot be broadcast; both happen in the first month and end the cell.
ConvolveSlice ==
    /\ runs > 0
    /\ ~ConvDone
    /\ error = "none"
    /\ LET it == SliceOf(slice)
       IN  IF it[3] \notin DOMAIN (IF it[1] = 0 THEN nr ELSE n50)
           THEN /\ error' = "IndexError"
                /\ UNCHANGED <<nr, n50, nreports, nprecip, slice>>
           ELSE IF ~Broadcastable(MaskShape)
           THEN /\ error' = "ValueError"
                /\ UNCHANGED <<nr, n50, nreports, nprecip, slice>>
           ELSE /\ IF it[1] = 0
                   THEN /\ nreports' = SliceResult(nreports, nr, it[2], it[3], it[4])
                        /\ nr' = InputAfter(nr, it[3], MonthsOf(it[4]))
                        /\ UNCHANGED <<nprecip, n50>>
                   ELSE /\ nprecip' = SliceResult(nprecip, n50, it[2], it[3], it[4])
                        /\ n50' = InputAfter(n50, it[3], MonthsOf(it[4]))
                        /\ UNCHANGED <<nreports, nr>>
                /\ slice' = slice + 1
                /\ UNCHANGED error
    /\ UNCHANGED <<ls_mask, castMode, runs, grids_pkl>>
    /\ UNCHANGED <<compVars, binVars, fracVars>>

\* The export cell, run after the loop cell has ended normally: grids.pkl gets
\* the two output tensors.
Export ==
    /\ ConvDone
    /\ grids_pkl' = [nreports |-> nreports, nprecip |-> nprecip]
    /\ UNCHANGED <<nr, n50, ls_mask, nreports, nprecip, slice, castMode, error, runs>>
    /\ UNCHANGED <<compVars, binVars, fracVars>>

\* The number of times the loop cell is run in one session.
MaxRuns == 2

\* The loop cell run again in the same session, after the notebook has been run
\* to its end: the loops start anew on the same arrays; nreports and nprecip
\* were created by an earlier cell (np.zeros) and are not created again.
RerunLoop ==
    /\ ConvDone
    /\ grids_pkl # <<>>
    /\ runs < MaxRuns
    /\ runs' = runs + 1
    /\ slice' = 1
    /\ UNCHANGED <<nr, n50, ls_mask, nreports, nprecip, castMode, error, grids_pkl>>
    /\ UNCHANGED <<compVars, binVars, fracVars>>

(***************************************************************************)
(* Compute fractions (src/unnamed/part_001).  The tensors have the shape   *)
(* of the loaded nreports; small shapes are tried.  f and sigma are        *)
(* fixed-point numbers in units of 1/10000.  MNcalc is imported from the   *)
(* module MNfrac, which is not among the sources: it is modelled from its  *)
(* contract (the qualifying fraction, 0 when N = 0; a non-negative sigma,  *)
(* 0 when N = 0, decreasing as N grows) as the binomial standard error     *)
(* plus the error of the Monte-Carlo estimate.                             *)
(***************************************************************************)

\* The largest number of reports of a cell of the loaded tensors.
MaxCount == 2

\* 1.0 in the fixed-point unit.
One == 10000

RECURSIVE ISqrtIn(_, _, _)
\* The integer square root of x, known to lie in lo .. hi - 1.
ISqrtIn(x, lo, hi) ==
    IF hi - lo <= 1
    THEN lo
    ELSE LET mid == (lo + hi) \div 2
         IN  IF mid * mid <= x THEN ISqrtIn(x, mid, hi) ELSE ISqrtIn(x, lo, mid)

ISqrt(x) == ISqrtIn(x, 0, One + 1)

\* The error of the Monte-Carlo estimate of sigma in one call, in units of 1/10000.
Draws == {0, 1}

\* MNcalc(M, N) with the Monte-Carlo error u: the fraction M/N and its estimated
\* standard error; both 0 when there are no reports.
MNcalc(M, N, u) ==
    IF N = 0
    THEN [f |-> 0, sigma |-> 0]
    ELSE LET fv == (M * One) \div N
         IN  [f |-> fv, sigma |-> ISqrt((fv * (One - fv)) \div N) + u]

\* The shapes (window, year, season, lat, lon) of the loaded tensors that are
\* tried: two cells along each single axis, and two latitudes by two longitudes.
FracShapes ==
    { <<2, 1, 1, 1, 1>>, <<1, 2, 1, 1, 1>>, <<1, 1, 2, 1, 1>>, <<1, 1, 1, 2, 1>>,
      <<1, 1, 1, 1, 2>>, <<1, 1, 1, 2, 2>> }

\* The <<number of precipitating reports, number of reports>> a cell may hold.
CountPairs == {p \in (0 .. MaxCount) \X (0 .. MaxCount) : p[1] <= p[2]}

\* sh = nreports.shape
sh ==
    LET a == grids.nreports
    IN  << Cardinality(DOMAIN a), Cardinality(DOMAIN a[0]), Cardinality(DOMAIN a[0][0]),
           Cardinality(DOMAIN a[0][0][0]), Cardinality(DOMAIN a[0][0][0][0]) >>

\* The number of executions of the innermost loop body.
CellCount(shape) == shape[1] * shape[2] * shape[3] * shape[4] * shape[5]

\* The loop variables <<I, J, K, L, P>> of the k-th execution of the body of
\* the five nested loops, k = 1 .. CellCount(shape).
CellOf(k, shape) ==
    LET n == k - 1
    IN  << n \div (shape[2] * shape[3] * shape[4] * shape[5]),
           (n \div (shape[3] * shape[4] * shape[5])) % shape[2],
           (n \div (shape[4] * shape[5])) % shape[3],
           (n \div shape[5]) % shape[4],
           n % shape[5] >>

\* A tensor of the given shape that holds v[k] at the cell of the k-th execution.
TensorOf(shape, v) ==
    [I \in 0 .. (shape[1] - 1) |-> [J \in 0 .. (shape[2] - 1) |->
        [K \in 0 .. (shape[3] - 1) |-> [L \in 0 .. (shape[4] - 1) |->
            [P \in 0 .. (shape[5] - 1) |->
                v[1 + P + shape[5] * (L + shape[4] * (K + shape[3] * (J + shape[2] * I)))]]]]]]

\* a[I, J, K, L, P]
At(a, idx) == a[idx[1]][idx[2]][idx[3]][idx[4]][idx[5]]

\* The counts read with the longitude index of the cell before (numpy counts the
\* index -1 from the end).
CellInputsPrevLon(idx) ==
    LET shifted == <<idx[1], idx[2], idx[3], idx[4], (idx[5] - 1) % sh[5]>>
    IN  <<At(grids.nprecip, shifted), At(grids.nreports, shifted)>>

\* <<M, N>> of the body: M = nprecip[I,J,K,L,P], N = nreports[I,J,K,L,P].
CellInputs(idx) == <<At(grids.nprecip, idx), At(grids.nreports, idx)>>

\* a[I, J, K, L, P] = v
Store(a, idx, v) == [a EXCEPT ![idx[1]][idx[2]][idx[3]][idx[4]][idx[5]] = v]

\* The loaded tensors, with M <= N reports in every cell; fprecip and sprecip
\* are np.zeros(sh).
InitFrac ==
    /\ \E shape \in FracShapes : \E c \in [1 .. CellCount(shape) -> CountPairs] :
          grids = [nreports |-> TensorOf(shape, [k \in DOMAIN c |-> c[k][2]]),
                   nprecip |-> TensorOf(shape, [k \in DOMAIN c |-> c[k][1]])]
    /\ fprecip = TensorOf(sh, [k \in 1 .. CellCount(sh) |-> 0])
    /\ sprecip = TensorOf(sh, [k \in 1 .. CellCount(sh) |-> 0])
    /\ cellsDone = 0
    /\ BinIdle
    /\ ConvIdle
    /\ CompIdle

\* One execution of the body of the innermost loop.
FractionCell ==
    /\ grids # <<>>
    /\ cellsDone < CellCount(sh)
    /\ LET idx == CellOf(cellsDone + 1, sh)
           MN == CellInputs(idx)
       IN  \E u \in Draws :
              /\ fprecip' = Store(fprecip, idx, MNcalc(MN[1], MN[2], u).f)
              /\ sprecip' = Store(sprecip, idx, MNcalc(MN[1], MN[2], u).sigma)
    /\ cellsDone' = cellsDone + 1
    /\ UNCHANGED grids
    /\ UNCHANGED <<binVars, convVars, compVars>>

(***************************************************************************)
(* 006-composite_fractions.  One cell of the (year, season, lat, lon) grid *)
(* is modelled: every array statement of the loop acts element-wise.       *)
(* Fractions and sigmas are fixed-point numbers in units of 1/10000, the   *)
(* thresholds are in units of 1/1000.                                      *)
(***************************************************************************)

\* sh[0] as the composite loop uses it: the number of aggregation windows.
NWin == 7

Windows == 0 .. (NWin - 1)

\* The threshold ladder of the outer loop, in units of 1/1000.
Thresholds == <<400, 300, 200, 100, 50, 30, 20, 10, 5, 3, 2, 1>>

\* (f, s) pairs a window of the cell may hold, in units of 1/10000:
\*   <<0, 0>>      no reports: s/f is NaN, f+s < 0.01
\*   <<0, 200>>    f = 0, s = 0.02: s/f is +inf, f+s >= 0.01
\*   <<5200, 5>>   s/f < 0.001
\*   <<5000, 20>>  s/f = 0.004
Samples == {<<0, 0>>, <<0, 200>>, <<5200, 5>>, <<5000, 20>>}

\* s/f with a division by zero giving 0.
SRatioZero(sv, fv) ==
    IF fv = 0 THEN [kind |-> "num", num |-> 0, den |-> 1]
    ELSE [kind |-> "num", num |-> sv, den |-> fv]

\* sratio = s/f (IEEE-754: 0/0 is NaN, x/0 is +inf for x > 0).
SRatio(sv, fv) ==
    IF fv = 0
    THEN (IF sv = 0 THEN [kind |-> "nan"] ELSE [kind |-> "inf"])
    ELSE [kind |-> "num", num |-> sv, den |-> fv]

\* The comparison with the inequality turned round.
LessFlipped(sr, sthresh) ==
    /\ sr.kind = "num"
    /\ sr.num * 1000 > sthresh * sr.den

\* sr < sthresh (IEEE-754: a comparison with NaN is false, +inf is below nothing).
Less(sr, sthresh) ==
    /\ sr.kind = "num"
    /\ sr.num * 1000 < sthresh * sr.den

\* m1 = sr < sthresh
M1(fv, sv, sthresh) == Less(SRatio(sv, fv), sthresh)

\* The low-signal test with cells without any signal left out.
M2Positive(fv, sv) == 0 < fv + sv /\ fv + sv < 100

\* m2 = (f[i] + s[i]) < 0.01
M2(fv, sv) == fv + sv < 100

\* m = np.logical_or(m1, m2)
M(fv, sv, sthresh) == M1(fv, sv, sthresh) \/ M2(fv, sv)

\* a[m] = b[m] at the cell: the assignment that ignores the mask.
MaskedAssignAlways(m, old, new) == new

\* a[m] = b[m] at the cell: the masked assignment.
MaskedAssign(m, old, new) == IF m THEN new ELSE old

\* np.flip(np.arange(sh[0])): the k-th window the inner loop visits, k = 1 .. sh[0].
WindowOrder(k) == NWin - k

\* The number of executions of the inner loop body.
PassCount == Len(Thresholds) * NWin

\* The loops with the windows visited in np.arange(sh[0]) order (no flip).
PassOfAscending(k) == <<((k - 1) \div NWin) + 1, ((k - 1) % NWin)>>

\* The loops nested the other way round: windows outside, thresholds inside.
PassOfSwapped(k) ==
    <<((k - 1) % Len(Thresholds)) + 1, WindowOrder(((k - 1) \div Len(Thresholds)) + 1)>>

\* The k-th execution of the body: <<index of sthresh in the ladder, window i>>,
\* thresholds in the outer loop, windows in the inner loop.
PassOf(k) == <<((k - 1) \div NWin) + 1, WindowOrder(((k - 1) % NWin) + 1)>>

\* The values of the loop variables during the current execution.
sthresh == Thresholds[PassOf(pass)[1]]
i == PassOf(pass)[2]

CompDone == pass > PassCount

\* fcomp, scomp are NaN and rcomp is -1 before the loops.
InitComp ==
    /\ \E p \in [Windows -> Samples] :
          /\ f = [w \in Windows |-> p[w][1]]
          /\ s = [w \in Windows |-> p[w][2]]
    /\ fcomp = NaN
    /\ scomp = NaN
    /\ rcomp = 0 - 1
    /\ pass = 1
    /\ ConvIdle
    /\ BinIdle
    /\ FracIdle

\* The body with scomp assigned under the relative-error mask m1 alone.
CompositePassSigmaByM1 ==
    /\ pass > 0
    /\ ~CompDone
    /\ LET m == M(f[i], s[i], sthresh)
       IN  /\ fcomp' = MaskedAssign(m, fcomp, Num(f[i]))
           /\ scomp' = MaskedAssign(M1(f[i], s[i], sthresh), scomp, Num(s[i]))
           /\ rcomp' = MaskedAssign(m, rcomp, i)
    /\ pass' = pass + 1
    /\ UNCHANGED <<f, s>>

\* The body with the grids built anew in every pass (np.where(m, f[i], np.nan)):
\* a cell that the mask leaves out goes back to its empty value.
CompositePassRebuild ==
    /\ pass > 0
    /\ ~CompDone
    /\ LET m == M(f[i], s[i], sthresh)
       IN  /\ fcomp' = (IF m THEN Num(f[i]) ELSE NaN)
           /\ scomp' = (IF m THEN Num(s[i]) ELSE NaN)
           /\ rcomp' = (IF m THEN i ELSE 0 - 1)
    /\ pass' = pass + 1
    /\ UNCHANGED <<f, s>>

\* One execution of the body of the inner loop.
CompositePass ==
    /\ pass > 0
    /\ ~CompDone
    /\ LET m == M(f[i], s[i], sthresh)
       IN  /\ fcomp' = MaskedAssign(m, fcomp, Num(f[i]))
           /\ scomp' = MaskedAssign(m, scomp, Num(s[i]))
           /\ rcomp' = MaskedAssign(m, rcomp, i)
    /\ pass' = pass + 1
    /\ UNCHANGED <<f, s>>

(***************************************************************************)
(* The notebooks as state machines.                                        *)
(***************************************************************************)

NextBin == AddBinLabels \/ Aggregate \/ Reindex

SpecBin == InitBin /\ [][NextBin]_vars

\* The convolution notebook run from top to bottom.
NextConv == ConvolveSlice \/ Export

SpecConv == InitConv /\ [][NextConv]_vars

\* A session in which the loop cell is run again.
NextSession == ConvolveSlice \/ Export \/ RerunLoop

SpecSession == InitConv /\ [][NextSession]_vars

\* The fractions notebook run from top to bottom.
NextFrac == FractionCell

SpecFrac == InitFrac /\ [][NextFrac]_vars

NextComp == CompositePass /\ UNCHANGED <<convVars, binVars, fracVars>>

SpecComp == InitComp /\ [][NextComp]_vars

\* A session of the binning notebook or a session of the convolution notebook.
InitGrids == InitBin \/ InitConv

NextGrids == AddBinLabels \/ Aggregate \/ Reindex \/ ConvolveSlice \/ Export

SpecGrids == InitGrids /\ [][NextGrids]_vars

\* A session of the convolution notebook or a session of the composite notebook.
InitStages == InitConv \/ InitComp

NextStages == ConvolveSlice \/ Export \/ NextComp

SpecStages == InitStages /\ [][NextStages]_vars

(***************************************************************************)
(* Properties of the binning (SpecBin).                                    *)
(***************************************************************************)

Gridded == lastCell = "gridded"

\* The rows of the table with year y and month m.
RowsOf(y, m) == {n \in DOMAIN df : df[n].YR = y /\ df[n].MO = m}

\* C15: for every (year, month, lat cell, lon cell) the total count is the
\* number of rows assigned to the cell with that year and month and the
\* qualifying count the number of those with WW >= 50; a row with WW = -1 is in
\* the total and not in the qualifying count.
C15_CountsPerCell ==
    Gridded =>
        \A y \in Range(years) : \A m \in Range(binMonths) :
            \A la \in Range(lats) : \A lo \in Range(lons) :
                LET here == {n \in RowsOf(y, m) : df[n].LAT_BIN = la /\ df[n].LON_BIN = lo}
                IN  /\ ds_reports[y][m][la][lo] = Cardinality(here)
                    /\ ds_precip[y][m][la][lo] = Cardinality({n \in here : df[n].WW >= 50})
                    /\ ds_reports[y][m][la][lo] - ds_precip[y][m][la][lo]
                          >= Cardinality({n \in here : df[n].WW = -1})

\* A cell with a report without WW and a report of drizzle: 2 reports, 1 of them
\* precipitating.
C15_Witness ==
    /\ Gridded
    /\ Len(df) = 2
    /\ df[1].WW = -1 /\ df[2].WW = 50
    /\ colgroups(df[1]) = colgroups(df[2])
    /\ ds_reports[df[1].YR][df[1].MO][df[1].LAT_BIN][df[1].LON_BIN] = 2
    /\ ds_precip[df[1].YR][df[1].MO][df[1].LAT_BIN][df[1].LON_BIN] = 1

\* The coordinate x lies in one of the cells that start at the edges bins.
InRange(x, bins) ==
    bins[1] * PerDegree <= x /\ x < (bins[Len(bins)] + 1) * PerDegree

\* The greatest edge less than or equal to the coordinate x.
FloorEdge(x, bins) ==
    CHOOSE e \in Range(bins) :
        /\ e * PerDegree <= x
        /\ \A e2 \in Range(bins) : e2 * PerDegree <= x => e2 <= e

\* C16: once the labels are assigned, every row with an in-range latitude has
\* as LAT_BIN the greatest latitude edge <= LAT, and every row with an in-range
\* longitude has as LON_BIN the greatest longitude edge <= LON, each whatever
\* the other coordinate is.
C16_FloorToLowerEdge ==
    lastCell # "loaded" =>
        \A n \in DOMAIN df :
            /\ InRange(df[n].LAT, lats) => df[n].LAT_BIN = FloorEdge(df[n].LAT, lats)
            /\ InRange(df[n].LON, lons) => df[n].LON_BIN = FloorEdge(df[n].LON, lons)

\* Latitude -0.5 is in the cell that starts at -1, and a latitude on the last
\* edge is in the cell that starts there.
C16_Witness ==
    /\ lastCell = "labelled"
    /\ Len(df) = 2
    /\ df[1].LAT = -1 /\ df[1].LAT_BIN = -1
    /\ df[2].LAT = (LatMax - 1) * PerDegree /\ df[2].LAT_BIN = LatMax - 1
    /\ df[2].LON = LonMax * PerDegree - 1 /\ df[2].LON_BIN = LonMax - 1

OutOfRange(rec) == ~InRange(rec.LAT, lats) \/ ~InRange(rec.LON, lons)

\* C17: a table with a row whose latitude or longitude is outside the edges is
\* not binned: no labels are assigned and no counts or grids are produced.
C17_OutOfRangeIsRejected ==
    (\E n \in DOMAIN df : OutOfRange(df[n])) =>
        /\ lastCell = "loaded"
        /\ df_reports = <<>>
        /\ ds_reports = <<>>

\* What the notebook does with such a row: a coordinate below the first edge
\* and a coordinate beyond the last cell are both given the label of the last
\* cell, and the row is counted there.
C17_OutOfRangeGoesToLastCell ==
    Gridded =>
        \A n \in DOMAIN df :
            /\ ~InRange(df[n].LAT, lats) => df[n].LAT_BIN = lats[Len(lats)]
            /\ ~InRange(df[n].LON, lons) => df[n].LON_BIN = lons[Len(lons)]
            /\ ds_reports[df[n].YR][df[n].MO][df[n].LAT_BIN][df[n].LON_BIN] >= 1

RECURSIVE SumGrid(_, _)
\* The sum of the (lat, lon) grid g over the cells k, k+1, ... (row-major).
SumGrid(g, k) ==
    IF k > Len(lats) * Len(lons)
    THEN 0
    ELSE g[lats[((k - 1) \div Len(lons)) + 1]][lons[((k - 1) % Len(lons)) + 1]]
         + SumGrid(g, k + 1)

\* C18: for every (year, month) the total grid summed over all cells is the
\* number of rows of the table with that year and month, wherever they lie.
C18_GridSumIsRowCount ==
    Gridded =>
        \A y \in Range(years) : \A m \in Range(binMonths) :
            SumGrid(ds_reports[y][m], 1) = Cardinality(RowsOf(y, m))

\* Two reports of the same month, one of them outside the edges.
C18_Witness ==
    /\ Gridded
    /\ Len(df) = 2
    /\ df[1].YR = df[2].YR /\ df[1].MO = df[2].MO
    /\ OutOfRange(df[1]) /\ ~OutOfRange(df[2])
    /\ SumGrid(ds_reports[df[1].YR][df[1].MO], 1) = 2

(***************************************************************************)
(* Properties of the convolution (SpecConv).                               *)
(***************************************************************************)

\* The input and the output of tlist_in / tlist_out at index n.
TIn(n) == IF n = 0 THEN nr ELSE n50
TOut(n) == IF n = 0 THEN nreports ELSE nprecip

\* The month indices of the seasons as the data model gives them: DJF (12, 1, 2),
\* MAM (3, 4, 5), JJA (6, 7, 8), SON (9, 10, 11), Annual (all), January = 0.
SeasonMonths == << {11, 0, 1}, {2, 3, 4}, {5, 6, 7}, {8, 9, 10}, 0 .. 11 >>

RECURSIVE SumMonths(_, _, _)
\* The sum of g[m] over the months m, m+1, ..., 11 that are in the set ms.
SumMonths(g, ms, m) ==
    IF m > 11 THEN 0
    ELSE (IF m \in ms THEN g[m] ELSE 0) + SumMonths(g, ms, m + 1)

\* C1: in every slice of both output tensors the cells where the land mask is
\* True hold 0.
C1_LandCellsZero ==
    \A n \in {0, 1} : \A j \in CWindows : \A y \in Years : \A se \in Seasons :
        \A r \in Lats : \A c \in Lons :
            MaskAt(r, c) => TOut(n)[j][y][se][r][c] = 0

C9_SeasonsUseSameYear ==
    ConvDone =>
        \A n \in {0, 1} : \A j \in CWindows : \A y \in Years : \A se \in Seasons :
            \A r \in Lats : \A c \in Lons :
                TOut(n)[j][y][se][r][c] =
                    Wrap32(SumMonths([m \in MonthIdx |->
                                         Term(TIn(n)[y][m], KernelShape(j), r, c)],
                                     SeasonMonths[se + 1], 0))

\* Reports of December of the last year are in the DJF slice of that year.
C9_Witness ==
    /\ ConvDone
    /\ nr[NYears - 1][11][0][0] > 0
    /\ ls_mask[0][0]
    /\ nreports[0][NYears - 1][0][0][0] = nr[NYears - 1][11][0][0]
    /\ nreports[0][0][0][0][0] = 0

\* The seasonal grid of year y: the element-wise sum of the member months.
SeasonGrid(tin, y, se) ==
    [r \in Lats |-> [c \in Lons |->
        SumMonths([m \in MonthIdx |-> tin[y][m][r][c]], SeasonMonths[se + 1], 0)]]

\* C10: every slice equals one convolve-truncate-mask step,
\* floor(convolve(grid, ones)) * (NOT land_mask), applied to the seasonal grid.
C10_SliceIsConvolvedSeasonGrid ==
    ConvDone =>
        \A n \in {0, 1} : \A j \in CWindows : \A y \in Years : \A se \in Seasons :
            \A r \in Lats : \A c \in Lons :
                TOut(n)[j][y][se][r][c] =
                    MulMask(AsInt32(Convolve2d(SeasonGrid(TIn(n), y, se),
                                               KernelShape(j), r, c), castMode),
                            ~MaskAt(r, c))

\* The same with the mask applied as the notebook applies it, for the runs in
\* which no accumulated value leaves the integer range.
C10_WithMaskOfCode ==
    (ConvDone /\ nr[0][0][NLat - 1][NLon - 1] < Big) =>
        \A n \in {0, 1} : \A j \in CWindows : \A y \in Years : \A se \in Seasons :
            \A r \in Lats : \A c \in Lons :
                TOut(n)[j][y][se][r][c] =
                    MulMask(AsInt32(Convolve2d(SeasonGrid(TIn(n), y, se),
                                               KernelShape(j), r, c), castMode),
                            MaskAt(r, c))

\* C11: after the convolution the window-0 slice of every year and season holds,
\* at every ocean cell (mask False), the seasonal input count of that cell and,
\* at every land cell (mask True), 0.
C11_WindowZeroIsIdentityOnOcean ==
    ConvDone =>
        \A n \in {0, 1} : \A y \in Years : \A se \in Seasons :
            \A r \in Lats : \A c \in Lons :
                TOut(n)[0][y][se][r][c] =
                    (IF MaskAt(r, c) THEN 0 ELSE SeasonGrid(TIn(n), y, se)[r][c])

\* The identity of window 0 on the cells the notebook keeps (mask True), for the
\* runs in which no accumulated value leaves the integer range.
C11_WithMaskOfCode ==
    (ConvDone /\ nr[0][0][NLat - 1][NLon - 1] < Big) =>
        \A n \in {0, 1} : \A y \in Years : \A se \in Seasons :
            \A r \in Lats : \A c \in Lons :
                TOut(n)[0][y][se][r][c] =
                    (IF MaskAt(r, c) THEN SeasonGrid(TIn(n), y, se)[r][c] ELSE 0)

\* (n - 1) / 2: the number of rows above (columns left of) the centre of an odd
\* window of n rows (columns).
HalfWidth(n) == (n - 1) \div 2

RECURSIVE WindowSum(_, _, _, _, _)
\* The sum of the grid t over the h x w cells centred on (r, c), cells k, k+1, ...
\* of the window in row-major order, row indices modulo the number of latitude
\* cells and column indices modulo the number of longitude cells.
WindowSum(t, shape, r, c, k) ==
    IF k >= shape[1] * shape[2]
    THEN 0
    ELSE t[(r - HalfWidth(shape[1]) + (k \div shape[2])) % NLat]
          [(c - HalfWidth(shape[2]) + (k % shape[2])) % NLon]
         + WindowSum(t, shape, r, c, k + 1)

\* C12: the value a window of odd shape (h, w) computes at a cell before masking
\* is the sum of the month's grid over the h rows and w columns centred on the
\* cell, indices taken modulo the grid size: every cell the mask keeps holds, in
\* every slice, the (cast) sums of the season's months.
C12_WindowSumWraps ==
    ConvDone =>
        \A n \in {0, 1} : \A j \in CWindows : \A y \in Years : \A se \in Seasons :
            \A r \in Lats : \A c \in Lons :
                MaskAt(r, c) =>
                    TOut(n)[j][y][se][r][c] =
                        Wrap32(SumMonths(
                            [m \in MonthIdx |->
                                AsInt32(WindowSum(TIn(n)[y][m], KernelShape(j), r, c, 0),
                                        castMode)],
                            SeasonMonths[se + 1], 0))

\* The cell in latitude row 0 and longitude column 0 includes the reports of the
\* last row and the last column.
C12_Witness ==
    /\ ConvDone
    /\ ls_mask[0][0]
    /\ nr[0][0][NLat - 1][NLon - 1] = 2
    /\ nr[0][0][0][0] = 0
    /\ nreports[1][0][0][0][0] = 2
    /\ nreports[0][0][0][0][0] = 0

\* The loop cell has ended, by reaching its end or by an exception.
ConvEnded == ConvDone \/ error # "none"

\* tin.shape[2:]: the (lat, lon) shape of the input grids.
GridShape(tin) == <<Cardinality(DOMAIN tin[0][0]), Cardinality(DOMAIN tin[0][0][0])>>

\* C13: whatever the number of years of the input grids (the mask being of the
\* shape of the grids), the loop ends without an exception with output tensors
\* of sh[0] windows whose year axis is the year axis of the input: every input
\* year has a slice in the output and every output year slice has an input year.
C13_OutputYearsAreInputYears ==
    (ConvEnded /\ MaskShape = GridShape(nr)) =>
        /\ error = "none"
        /\ \A n \in {0, 1} :
              /\ DOMAIN TOut(n) = CWindows
              /\ \A j \in CWindows : DOMAIN TOut(n)[j] = DOMAIN TIn(n)

\* With input grids of sh[1] years the year axes agree.
C13_WithYearsOfSh ==
    (ConvEnded /\ DOMAIN nr = Years /\ MaskShape = GridShape(nr)) =>
        /\ error = "none"
        /\ \A n \in {0, 1} : \A j \in CWindows : DOMAIN TOut(n)[j] = DOMAIN TIn(n)

\* C14: when the (lat, lon) shape of the mask differs from the one of the input
\* grids, no iteration of the loop completes and the output tensors keep their
\* zeros: the mask and a grid of another shape are never combined.
C14_ShapeMismatchIsFatal ==
    MaskShape # GridShape(nr) =>
        /\ slice = 1
        /\ nreports = ZeroTensor
        /\ nprecip = ZeroTensor

\* A mask whose shape cannot be broadcast to the grid's ends the loop in its
\* first iteration with a ValueError and leaves the outputs zero.
C14_NotBroadcastableIsFatal ==
    ~Broadcastable(MaskShape) =>
        /\ slice = 1
        /\ error \in {"none", "ValueError"}
        /\ nreports = ZeroTensor
        /\ nprecip = ZeroTensor

RECURSIVE GridTotal(_, _)
\* The sum of the (lat, lon) grid g over the cells k, k+1, ... (row-major).
GridTotal(g, k) ==
    IF k >= NLat * NLon
    THEN 0
    ELSE g[k \div NLon][k % NLon] + GridTotal(g, k + 1)

\* The number of reports of year y of the input tin, all months and cells.
YearTotal(tin, y) == SumMonths([m \in MonthIdx |-> GridTotal(tin[y][m], 0)], MonthIdx, 0)

\* The grid is at least as large as every kernel in both dimensions.
KernelsFit == \A j \in CWindows : KernelShape(j)[1] <= NLat /\ KernelShape(j)[2] <= NLon

\* The yearly totals of both inputs are below 2^31 (scaled: 2^(IntBits-1)).
TotalsFit ==
    \A n \in {0, 1} : \A y \in DOMAIN TIn(n) : YearTotal(TIn(n), y) < Pow2(IntBits - 1)

\* C19: with kernels no larger than the grid and yearly totals below 2^31, every
\* value of the output tensors is, at every moment of the accumulation, within
\* 0 .. 2^31 - 1, and at the end it is the count itself: the number of the
\* season's reports in the window of the cell (at the cells the mask keeps).
C19_NoOverflow ==
    (KernelsFit /\ TotalsFit) =>
        \A n \in {0, 1} : \A j \in CWindows : \A y \in Years : \A se \in Seasons :
            \A r \in Lats : \A c \in Lons :
                /\ TOut(n)[j][y][se][r][c] >= 0
                /\ TOut(n)[j][y][se][r][c] <= Pow2(IntBits - 1) - 1
                /\ ConvDone =>
                      TOut(n)[j][y][se][r][c] =
                          MulMask(WindowSum(SeasonGrid(TIn(n), y, se),
                                            KernelShape(j), r, c, 0),
                                  MaskAt(r, c))

\* An annual count above half of the integer range.
C19_Witness ==
    /\ ConvDone
    /\ KernelsFit /\ TotalsFit
    /\ \E y \in Years : \E r \in Lats : \E c \in Lons :
          nreports[ConvWindows - 1][y][4][r][c] > Big

\* Without the bound on the yearly totals a count leaves the integer range and
\* the tensor holds a negative or a wrong value.
C19_OverflowBeyondTotals ==
    ConvDone =>
        \A n \in {0, 1} : \A j \in CWindows : \A y \in Years : \A se \in Seasons :
            \A r \in Lats : \A c \in Lons :
                TOut(n)[j][y][se][r][c] >= 0

\* C20: whenever the loop cell has ended, the output tensors equal the ones an
\* earlier run on the same inputs exported, also when the loop cell is run a
\* second time in the same session.
C20_RerunGivesEqualOutputs ==
    (ConvDone /\ grids_pkl # <<>>) =>
        (nreports = grids_pkl.nreports /\ nprecip = grids_pkl.nprecip)

\* The second run of the loop cell adds its counts to the ones of the first
\* run: while twice the yearly totals fit the integer type, every value is
\* twice the count.
C20_SecondRunDoubles ==
    (/\ ConvDone /\ runs = 2
     /\ KernelsFit
     /\ \A n \in {0, 1} : \A y \in DOMAIN TIn(n) :
           2 * YearTotal(TIn(n), y) < Pow2(IntBits - 1))
    =>  \A n \in {0, 1} : \A j \in CWindows : \A y \in Years : \A se \in Seasons :
            \A r \in Lats : \A c \in Lons :
                TOut(n)[j][y][se][r][c] =
                    2 * MulMask(WindowSum(SeasonGrid(TIn(n), y, se),
                                          KernelShape(j), r, c, 0),
                                MaskAt(r, c))

\* C29: after the convolution the count of every (year, season, cell) of both
\* tensors does not decrease from a window to the next wider one.
C29_WiderWindowCountsMore ==
    ConvDone =>
        \A n \in {0, 1} : \A j \in 0 .. (ConvWindows - 2) : \A y \in Years :
            \A se \in Seasons : \A r \in Lats : \A c \in Lons :
                TOut(n)[j][y][se][r][c] <= TOut(n)[j + 1][y][se][r][c]

\* C29 amended: the same for inputs whose yearly totals are below 2^31, so that
\* no window sum and no accumulated count leaves the integer range.
C29_WiderWindowCountsMoreIfTotalsFit ==
    (ConvDone /\ KernelsFit /\ TotalsFit) =>
        \A n \in {0, 1} : \A j \in 0 .. (ConvWindows - 2) : \A y \in Years :
            \A se \in Seasons : \A r \in Lats : \A c \in Lons :
                TOut(n)[j][y][se][r][c] <= TOut(n)[j + 1][y][se][r][c]

\* The last cell holds its own 2 reports in window 0 and the reports of the
\* opposite corner as well in the last window; a cell without reports holds 0
\* and a positive count.
C29_Witness ==
    /\ ConvDone
    /\ KernelsFit /\ TotalsFit
    /\ nreports[0][0][4][NLat - 1][NLon - 1] = 2
    /\ nreports[ConvWindows - 1][0][4][NLat - 1][NLon - 1] > 2
    /\ nreports[0][0][4][1][1] = 0
    /\ nreports[ConvWindows - 1][0][4][1][1] > 0

(***************************************************************************)
(* Properties of the count grids of both stages (SpecGrids).               *)
(***************************************************************************)

\* C28: the qualifying count is at most the total count at every (year, month,
\* cell) of the binned grids and at every (window, year, season, cell) of the
\* convolved tensors, at every moment.
C28_PrecipAtMostReports ==
    /\ Gridded =>
          \A y \in Range(years) : \A m \in Range(binMonths) :
              \A la \in Range(lats) : \A lo \in Range(lons) :
                  ds_precip[y][m][la][lo] <= ds_reports[y][m][la][lo]
    /\ runs > 0 =>
          \A j \in CWindows : \A y \in Years : \A se \in Seasons :
              \A r \in Lats : \A c \in Lons :
                  nprecip[j][y][se][r][c] <= nreports[j][y][se][r][c]

\* The qualifying monthly counts are at most the total ones at every cell of the
\* loaded grids.
InputsOrdered ==
    \A y \in DOMAIN n50 : \A m \in MonthIdx : \A r \in Lats : \A c \in Lons :
        n50[y][m][r][c] <= nr[y][m][r][c]

\* C28 amended: the same, in the convolved tensors for inputs whose yearly
\* totals are below 2^31.
C28_PrecipAtMostReportsIfTotalsFit ==
    /\ Gridded =>
          \A y \in Range(years) : \A m \in Range(binMonths) :
              \A la \in Range(lats) : \A lo \in Range(lons) :
                  ds_precip[y][m][la][lo] <= ds_reports[y][m][la][lo]
    /\ (runs > 0 /\ InputsOrdered /\ KernelsFit /\ TotalsFit) =>
          \A j \in CWindows : \A y \in Years : \A se \in Seasons :
              \A r \in Lats : \A c \in Lons :
                  nprecip[j][y][se][r][c] <= nreports[j][y][se][r][c]

\* After the convolution: a cell with a precipitating report among several.
C28_Witness ==
    /\ ConvDone
    /\ InputsOrdered /\ KernelsFit /\ TotalsFit
    /\ \E j \in CWindows : \E y \in Years : \E se \in Seasons : \E r \in Lats : \E c \in Lons :
          /\ 0 < nprecip[j][y][se][r][c]
          /\ nprecip[j][y][se][r][c] < nreports[j][y][se][r][c]

\* After the binning: a cell with a precipitating report among two.
C28_WitnessBinned ==
    /\ Gridded
    /\ \E y \in Range(years) : \E m \in Range(binMonths) :
          \E la \in Range(lats) : \E lo \in Range(lons) :
              ds_precip[y][m][la][lo] = 1 /\ ds_reports[y][m][la][lo] = 2

(***************************************************************************)
(* Frame of the stages (SpecStages).                                       *)
(***************************************************************************)

\* C22: no step of the convolution notebook changes the monthly input grids nr
\* and n50 or the land mask, and no step of the composite notebook changes the
\* fraction and standard-error tensors f and s.
C22_StagesKeepInputs ==
    [][/\ nr' = nr /\ n50' = n50 /\ ls_mask' = ls_mask
       /\ f' = f /\ s' = s]_vars

\* The convolution has run to its end and has exported counts of reports that
\* the inputs still hold, at a cell that the mask sets to zero.
C22_Witness ==
    /\ ConvDone
    /\ grids_pkl # <<>>
    /\ ~ls_mask[0][0]
    /\ \E y \in Years : \E m \in MonthIdx : nr[y][m][0][0] > 0
    /\ \E j \in CWindows : \E y \in Years : \E se \in Seasons : \E r \in Lats : \E c \in Lons :
          nreports[j][y][se][r][c] > 0

(***************************************************************************)
(* Properties of the fractions (SpecFrac).                                 *)
(***************************************************************************)

\* The executions of the loop body that have been made.
CellsMade == 1 .. cellsDone

\* C21: every cell the loop has passed holds f = 0 and sigma = 0 if its N is 0,
\* f = 1 and sigma >= 0 if its M = N > 0, and in every case the f and a sigma that
\* the estimator gives for the M and N at the cell's own index; the cells the
\* loop has not reached yet still hold 0.
C21_EstimatorPerCell ==
    grids # <<>> =>
        /\ \A k \in CellsMade :
              LET idx == CellOf(k, sh)
                  Mk == At(grids.nprecip, idx)
                  Nk == At(grids.nreports, idx)
              IN  /\ Nk = 0 => (At(fprecip, idx) = 0 /\ At(sprecip, idx) = 0)
                  /\ (Mk = Nk /\ Nk > 0) => (At(fprecip, idx) = One /\ At(sprecip, idx) >= 0)
                  /\ At(fprecip, idx) = MNcalc(Mk, Nk, 0).f
                  /\ At(sprecip, idx) \in {MNcalc(Mk, Nk, u).sigma : u \in Draws}
        /\ \A k \in (cellsDone + 1) .. CellCount(sh) :
              At(fprecip, CellOf(k, sh)) = 0 /\ At(sprecip, CellOf(k, sh)) = 0

\* A finished run over two latitudes and two longitudes: one of two reports
\* precipitates in the first cell, there are no reports in the cell north of it,
\* and all of two reports precipitate in the last cell.
C21_Witness ==
    /\ grids # <<>>
    /\ cellsDone = CellCount(sh)
    /\ sh[4] = 2 /\ sh[5] = 2
    /\ grids.nreports[0][0][0][0][0] = 2 /\ grids.nprecip[0][0][0][0][0] = 1
    /\ fprecip[0][0][0][0][0] = One \div 2 /\ sprecip[0][0][0][0][0] > 0
    /\ grids.nreports[0][0][0][1][0] = 0
    /\ fprecip[0][0][0][1][0] = 0 /\ sprecip[0][0][0][1][0] = 0
    /\ grids.nprecip[0][0][0][1][1] = 2
    /\ fprecip[0][0][0][1][1] = One

(***************************************************************************)
(* Properties of the composite selector (SpecComp).                        *)
(***************************************************************************)

LastT == Len(Thresholds)

\* The eligibility test as the specification words it: relative error below the
\* t-th threshold of the ladder, or low signal, at window w of the cell.
RelErrBelow(w, t) == f[w] > 0 /\ s[w] * 1000 < Thresholds[t] * f[w]
LowSignal(w) == f[w] + s[w] < 100
Eligible(w, t) == RelErrBelow(w, t) \/ LowSignal(w)

EligibleAt(t) == {w \in Windows : Eligible(w, t)}
NeverEligible == \A t \in 1 .. LastT : EligibleAt(t) = {}

MinOf(S) == CHOOSE x \in S : \A y \in S : x <= y
MaxOf(S) == CHOOSE x \in S : \A y \in S : x >= y

\* C2 as stated: after all passes the selected window of a cell is the narrowest
\* window eligible in the last (0.001) pass.
C2_NarrowestOfLastPass ==
    (CompDone /\ rcomp >= 0) =>
        (EligibleAt(LastT) # {} /\ rcomp = MinOf(EligibleAt(LastT)))

\* C2 amended: after all passes, a cell with at least one window eligible in the
\* last (0.001) pass has the narrowest such window selected.
C2_NarrowestOfLastPassIfAny ==
    (CompDone /\ EligibleAt(LastT) # {}) => rcomp = MinOf(EligibleAt(LastT))

C2_Witness ==
    /\ CompDone
    /\ EligibleAt(LastT) # {}
    /\ rcomp = MinOf(EligibleAt(LastT))
    /\ rcomp > 0
    /\ NWin - 1 \in EligibleAt(LastT)

\* C3: a cell whose window 0 is eligible in the 0.001 pass ends with window 0
\* selected and with the fraction and sigma of window 0, whatever the other
\* windows hold.
C3_WindowZeroWins ==
    (CompDone /\ Eligible(0, LastT)) =>
        (rcomp = 0 /\ fcomp = Num(f[0]) /\ scomp = Num(s[0]))

\* The scenario of the specification: window 6 has f = 0.5, s = 0.002 and
\* window 0 has f = 0.52, s = 0.0005.
C3_Witness ==
    /\ CompDone
    /\ f[NWin - 1] = 5000 /\ s[NWin - 1] = 20
    /\ f[0] = 5200 /\ s[0] = 5
    /\ rcomp = 0
    /\ fcomp = Num(5200)

AllZero == \A w \in Windows : f[w] = 0 /\ s[w] = 0

\* C4: a cell with f = 0 and s = 0 at every window is assigned in every pass,
\* the first included (after each pass it holds the window of that pass, with
\* f = 0 and s = 0), and ends with window 0, not -1.
C4_AllZeroCell ==
    AllZero =>
        /\ pass > 1 =>
              (rcomp = PassOf(pass - 1)[2] /\ fcomp = Num(0) /\ scomp = Num(0))
        /\ CompDone => rcomp = 0

C4_Witness == AllZero /\ CompDone /\ rcomp = 0 /\ fcomp = Num(0) /\ scomp = Num(0)

\* C5: after all passes a cell has r = -1 and NaN f and s exactly when no window
\* is eligible at any threshold, and a window in 0..6 otherwise.
C5_UnresolvedIffNeverEligible ==
    CompDone =>
        /\ NeverEligible <=> (rcomp = -1 /\ fcomp = NaN /\ scomp = NaN)
        /\ NeverEligible <=> (rcomp = -1)
        /\ ~NeverEligible => rcomp \in Windows

C5_Witness ==
    /\ CompDone
    /\ NeverEligible
    /\ rcomp = -1 /\ fcomp = NaN /\ scomp = NaN

\* C6: a window with f = 0 passes the relative-error test m1 at no threshold,
\* and a cell holds such a window only if f + s < 0.01 there.
C6_ZeroFractionOnlyByLowSignal ==
    /\ \A w \in Windows : \A t \in 1 .. LastT :
          f[w] = 0 => ~M1(f[w], s[w], Thresholds[t])
    /\ (rcomp >= 0 /\ f[rcomp] = 0) => f[rcomp] + s[rcomp] < 100

C6_Witness ==
    /\ CompDone
    /\ rcomp >= 0 /\ f[rcomp] = 0
    /\ \E w \in Windows : w < rcomp /\ f[w] = 0 /\ s[w] > 0

\* The passes in the order of the code, and with the two loops exchanged.
CodeOrder(k) == <<((k - 1) \div NWin) + 1, NWin - 1 - ((k - 1) % NWin)>>
SwappedOrder(k) == <<((k - 1) % LastT) + 1, NWin - 1 - ((k - 1) \div LastT)>>

EligiblePasses(order(_)) ==
    {k \in 1 .. PassCount : Eligible(order(k)[2], order(k)[1])}

\* Selection by overwrite (the last eligible pass wins) and by early exit (the
\* first eligible pass wins) over a given order of the passes.
LastWins(order(_)) ==
    IF EligiblePasses(order) = {} THEN -1 ELSE order(MaxOf(EligiblePasses(order)))[2]
FirstWins(order(_)) ==
    IF EligiblePasses(order) = {} THEN -1 ELSE order(MinOf(EligiblePasses(order)))[2]

\* The widest window is eligible at 0.4 and a narrower one in the 0.001 pass.
WidestEarlyNarrowerLate ==
    /\ Eligible(NWin - 1, 1)
    /\ \E w \in Windows : w < NWin - 1 /\ Eligible(w, LastT)

\* Window 0 is eligible at 0.4 but not in the 0.001 pass, where another one is.
NarrowestEarlyOnly ==
    /\ Eligible(0, 1)
    /\ ~Eligible(0, LastT)
    /\ EligibleAt(LastT) # {}

\* C7: the result is the replay of the passes in the order of the code with the
\* last eligible pass winning; first-eligible-wins and the exchanged loops give
\* another window on the inputs described above.
C7_OrderMatters ==
    CompDone =>
        /\ rcomp = LastWins(CodeOrder)
        /\ WidestEarlyNarrowerLate => rcomp # FirstWins(CodeOrder)
        /\ NarrowestEarlyOnly => rcomp # LastWins(SwappedOrder)

C7_Witness ==
    /\ CompDone
    /\ WidestEarlyNarrowerLate
    /\ NarrowestEarlyOnly
    /\ rcomp # FirstWins(CodeOrder)
    /\ rcomp # LastWins(SwappedOrder)
    /\ FirstWins(CodeOrder) # LastWins(SwappedOrder)

\* The index in the ladder of the smallest threshold at which a window of the
\* cell is eligible.
TStar == MaxOf({t \in 1 .. LastT : EligibleAt(t) # {}})

\* C23: after all passes a cell with an eligible (threshold, window) pair holds
\* the lowest-index window that is eligible at t*, the smallest threshold at
\* which any of its windows is eligible; every narrower window is not eligible
\* at t*, even if it is at larger thresholds.
C23_NarrowestAtSmallestThreshold ==
    (CompDone /\ ~NeverEligible) =>
        /\ rcomp = MinOf(EligibleAt(TStar))
        /\ \A w \in Windows : w < rcomp => ~Eligible(w, TStar)

\* t* is 0.005; window 0 is eligible at 0.4 .. 0.005, window 1 at no threshold;
\* and a cell where window 0 is eligible at 0.4 but loses to a wider window
\* eligible at t* = 0.001.
C23_Witness ==
    /\ CompDone
    /\ ~NeverEligible
    /\ TStar = LastT
    /\ Eligible(0, 1) /\ ~Eligible(0, TStar)
    /\ rcomp > 1
    /\ rcomp = MinOf(EligibleAt(TStar))

\* A cell whose smallest threshold with an eligible window lies inside the ladder.
C23_WitnessInsideLadder ==
    /\ CompDone
    /\ ~NeverEligible
    /\ TStar < LastT
    /\ rcomp = MinOf(EligibleAt(TStar))

\* C24: after every pass r = -1 exactly when f_composite and s_composite are
\* both NaN (and then neither has a value), and r = w >= 0 means that
\* f_composite and s_composite are f and s of window w.
C24_GridsAligned ==
    pass > 0 =>
        /\ (rcomp = -1) <=> (fcomp = NaN /\ scomp = NaN)
        /\ (fcomp = NaN \/ scomp = NaN) => rcomp = -1
        /\ rcomp >= 0 => (fcomp = Num(f[rcomp]) /\ scomp = Num(s[rcomp]))

\* In the middle of the passes: a cell that holds a window by the low-signal test
\* alone, with f = 0 and s = 0 of that window.
C24_Witness ==
    /\ pass > 1 /\ ~CompDone
    /\ rcomp >= 0
    /\ LowSignal(rcomp) /\ ~RelErrBelow(rcomp, 1)
    /\ fcomp = Num(f[rcomp]) /\ scomp = Num(s[rcomp])
    /\ \E w \in Windows : f[w] # f[rcomp]

\* C25: after all passes a cell with low signal at a window w holds a window
\* between 0 and w, whatever the relative errors of the windows.
C25_LowSignalBoundsWindow ==
    CompDone =>
        \A w \in Windows : LowSignal(w) => (0 <= rcomp /\ rcomp <= w)

\* Low signal at window 3 only, a relative error below every threshold at the
\* widest window and none below 0.4 at the narrower ones: window 3 is held.
C25_Witness ==
    /\ CompDone
    /\ LowSignal(3)
    /\ \A w \in Windows \ {3} : ~LowSignal(w)
    /\ RelErrBelow(NWin - 1, LastT)
    /\ \A w \in 0 .. 2 : ~Eligible(w, 1)
    /\ rcomp = 3

\* C26: at every moment the window a cell holds has a relative error below 0.4
\* or low signal.
C26_HeldWindowIsEligible ==
    rcomp >= 0 => (RelErrBelow(rcomp, 1) \/ LowSignal(rcomp))

\* A window that fails both tests was passed over: the cell holds a wider one.
C26_Witness ==
    /\ CompDone
    /\ rcomp > 0
    /\ \A w \in 0 .. (rcomp - 1) : ~RelErrBelow(w, 1) /\ ~LowSignal(w)
    /\ RelErrBelow(rcomp, 1) /\ ~LowSignal(rcomp)

\* C27: once a cell holds a window it holds one after every later pass, and its
\* f_composite and s_composite are not NaN again.
C27_AssignedStaysAssigned ==
    [][rcomp >= 0 => (rcomp' >= 0 /\ fcomp' # NaN /\ scomp' # NaN)]_vars

\* A cell assigned at the threshold 0.005 that no pass of the smaller thresholds
\* selects again still holds its window at the end.
C27_Witness ==
    /\ CompDone
    /\ ~NeverEligible
    /\ EligibleAt(LastT) = {}
    /\ rcomp >= 0 /\ fcomp # NaN /\ scomp # NaN

====
